---- MODULE Spec2Model ----
(***************************************************************************)
(* Model of erftools.input_sounding.InputSounding: the sounding object and *)
(* its two hydrostatic column integrations, integrate_column_wrf and       *)
(* integrate_column.                                                       *)
(*                                                                         *)
(* Floating-point values are modelled in fixed point, one unit per         *)
(* quantity:                                                               *)
(*   pressures p_surf, pm, p      1 Pa                                     *)
(*   heights z, dz                1 m                                      *)
(*   potential temperatures th    1 K                                      *)
(*   mixing ratios qv, qv_surf    0.001 kg/kg  (the file's g/kg)           *)
(*   moisture factors qvf, qvf1   0.001                                    *)
(*   densities rho, rho_surf      0.001 kg/m^3                             *)
(*   moist theta thm              0.001 K                                  *)
(*   pressure ratios pm/p0        0.0001                                   *)
(* Every product or quotient is rounded to the unit of its result, as a    *)
(* float operation rounds to the nearest representable value.  NaN is the  *)
(* value numpy produces for a negative base raised to a fractional power;  *)
(* it propagates through every operation and compares false.               *)
(* Array indices k are the 0-based indices of the code; a TLA+ sequence    *)
(* holds element k at position k+1.                                        *)
(***************************************************************************)
EXTENDS Integers, Sequences, FiniteSets, TLC

\* self: the InputSounding object; fr: the frame of the running (or last) call;
\* nrelax: the pressure/density relaxation passes the call has completed;
\* nsteps: the steps the call has taken since its entry;
\* recalled: whether the call is not the first one made on the object
VARIABLES self, fr, nrelax, nsteps, recalled

vars == <<self, fr, nrelax, nsteps, recalled>>

(* ------------------------------ bounds -------------------------------- *)
MaxN == 3
MaxNiter == 2

(* --------------------- constants (erftools.constants) ----------------- *)
R_d == 287
g == 981
p0 == 100000
rvovrd == 1608
cvpmNum == 5
cvpmDen == 7

(* ------------------------------ numbers ------------------------------- *)
NaN == -(2^30)

IsNaN(x) == x = NaN

\* a/b rounded to the nearest integer (b > 0)
RDiv(a, b) ==
    IF a >= 0 THEN (2 * a + b) \div (2 * b)
              ELSE -((2 * (-a) + b) \div (2 * b))

\* product of two ratios held in units of 0.0001
FMul(a, b) == (a * b) \div 10000

RECURSIVE FPow(_, _)
FPow(r, n) == IF n = 1 THEN r ELSE FMul(FPow(r, n - 1), r)

\* largest r in lo..hi-1 with r^cvpmDen <= x (bisection), ratios in 0.0001
RECURSIVE Root(_, _, _)
Root(x, lo, hi) ==
    IF hi - lo <= 1 THEN lo
    ELSE LET mid == (lo + hi) \div 2
         IN  IF FPow(mid, cvpmDen) <= x THEN Root(x, mid, hi)
                                        ELSE Root(x, lo, mid)

\* (P/p0)**(-cvpm) = (P/p0)**(5/7) for P >= 0, in units of 0.0001
PowRatio(P) == FPow(Root(RDiv(P, p0 \div 10000), 0, 15000), cvpmNum)

\* x > 0 as the code evaluates it: false for NaN
Gt0(x) == ~IsNaN(x) /\ x > 0

Sub(a, b) == IF IsNaN(a) \/ IsNaN(b) THEN NaN ELSE a - b
Add(a, b) == IF IsNaN(a) \/ IsNaN(b) THEN NaN ELSE a + b

(* ------------------------- physics of the column ---------------------- *)
\* Qvf with the parentheses of integrate_column dropped: 1 + rvovrd - 1*qv
Qvf_noparen(routine, q) ==
    IF routine = "integrate_column_wrf"
    THEN 1000 + RDiv(rvovrd * q, 1000)
    ELSE 1000 + rvovrd - q

\* moisture factor qvf of a mixing ratio q, one formula per routine
Qvf(routine, q) ==
    IF routine = "integrate_column_wrf"
    THEN 1000 + RDiv(rvovrd * q, 1000)
    ELSE 1000 + RDiv((rvovrd - 1000) * q, 1000)

\* equation of state: 1./((R_d/p0)*th*qvf*((P/p0)**cvpm)), th > 0, qvf > 0.
\* numpy: a negative or NaN pressure gives NaN; P = 0 gives 1/inf = 0.
EOS(th_, qvf, P) ==
    IF IsNaN(P) \/ P < 0 THEN NaN
    ELSE IF P = 0 THEN 0
    ELSE RDiv(PowRatio(P) * (p0 \div 10), RDiv(R_d * th_ * qvf, 1000))

\* 0.5*dz*(ra + rb)*g, in Pa
HydroDry(dz, ra, rb) ==
    IF IsNaN(ra) \/ IsNaN(rb) THEN NaN
    ELSE RDiv(RDiv(dz * (ra + rb), 200) * g, 1000)

\* 0.5*dz*(ra + rb)*g*qvf1, in Pa
HydroMoist(dz, ra, rb, qvf1) ==
    IF IsNaN(ra) \/ IsNaN(rb) THEN NaN
    ELSE RDiv(HydroDry(dz, ra, rb) * qvf1, 1000)

(* ---------------------------- the object ------------------------------ *)
At(a, k) == a[k + 1]
Put(a, k, x) == [a EXCEPT ![k + 1] = x]
Zeros(N) == [j \in 1..N |-> 0]
Column(init, c) == [j \in 1..Len(init) |-> init[j][c]]

\* __init__: the surface line (hPa, K, g/kg) and the level rows
\* <<z, th, qv (g/kg), u, v>> of the file.  has_rho is hasattr(self, 'rho').
InputSounding(p_surf_hPa, T_surf, qv_surf_gkg, init) ==
    [ p_surf  |-> p_surf_hPa * 100,
      th_surf |-> T_surf,
      qv_surf |-> qv_surf_gkg,
      z  |-> Column(init, 1),
      th |-> Column(init, 2),
      qv |-> Column(init, 3),
      u  |-> Column(init, 4),
      v  |-> Column(init, 5),
      has_rho |-> FALSE,
      rho |-> << >>, thm |-> << >>, pm |-> << >>, p |-> << >> ]

\* exceptions: the type and the args the caller receives
NoExc == [type |-> "none", args |-> << >>]
AssertionError(msg) == [type |-> "AssertionError", args |-> <<[t |-> "str", s |-> msg]>>]
IndexError == [type |-> "IndexError",
               args |-> <<[t |-> "str", s |-> "index 0 is out of bounds"]>>]

\* the frame of the running call
\* (printed: the lines the call has written to standard output)
NoFrame ==
    [ pc |-> "idle", routine |-> "none", verbose |-> FALSE, Niter |-> 0, N |-> 0,
      k |-> 0, i |-> 0, qvf |-> 0, qvf1 |-> 0, dz |-> 0, rho_surf |-> 0,
      printed |-> 0, exc |-> NoExc ]

\* if verbose: print(...)
Emit(f) == IF f.verbose THEN [f EXCEPT !.printed = @ + 1] ELSE f

Raise(s, f, e) == [self |-> s, fr |-> [f EXCEPT !.pc = "failed", !.exc = e]]

(* --------------------- the steps of an integration -------------------- *)
\* Each step maps the object s and the frame f to the pair after the step.

\* QvfSurf with both routines reading qv_surf
QvfSurf_surface(routine, s) == Qvf(routine, s.qv_surf)

\* the moisture factor of the surface density rho_surf:
\* integrate_column_wrf takes qv[0], integrate_column takes qv_surf
QvfSurf(routine, s) ==
    IF routine = "integrate_column_wrf"
    THEN Qvf(routine, At(s.qv, 0))
    ELSE Qvf(routine, s.qv_surf)

\* Allocate that keeps arrays of the right length when the object has them
Allocate_reuse(s, N) ==
    IF s.has_rho /\ Len(s.rho) = N
    THEN s
    ELSE [s EXCEPT !.has_rho = TRUE, !.rho = Zeros(N), !.thm = Zeros(N),
                   !.pm = Zeros(N), !.p = Zeros(N)]

\* the four arrays of the derived profile, created by np.zeros(N)
Allocate(s, N) ==
    [s EXCEPT !.has_rho = TRUE, !.rho = Zeros(N), !.thm = Zeros(N),
              !.pm = Zeros(N), !.p = Zeros(N)]

\* entry of a call up to the allocation of the arrays.  On an empty table
\* integrate_column_wrf raises at qv[0] before it prints or allocates anything.
Enter(s, routine, verbose, Niter) ==
    LET N  == Len(s.th)
        f0 == [NoFrame EXCEPT !.pc = "stage1_init", !.routine = routine,
                              !.verbose = verbose, !.Niter = Niter, !.N = N]
    IN  IF routine = "integrate_column_wrf" /\ N = 0
        THEN Raise(s, f0, IndexError)
        ELSE LET qvf == QvfSurf(routine, s)
             IN  [self |-> Allocate(s, N),
                  fr   |-> Emit([f0 EXCEPT !.qvf = qvf,
                                           !.rho_surf = EOS(s.th_surf, qvf, s.p_surf)])]

\* 1. Integrate from surface to lowest level: the assignments before the loop
Stage1InitOp(s, f) ==
    IF f.N = 0
    THEN Raise(s, f, IndexError)
    ELSE [self |-> [s EXCEPT !.rho = Put(s.rho, 0, f.rho_surf)],
          fr   |-> [f EXCEPT !.pc = "stage1_loop",
                             !.qvf = Qvf(f.routine, At(s.qv, 0)),
                             !.qvf1 = 1000 + At(s.qv, 0),
                             !.dz = At(s.z, 0),
                             !.i = 0]]

\* Stage1RelaxOp with a convergence test: the loop is left when the pass
\* did not change rho[0]
Stage1RelaxOp_converged(s, f) ==
    LET pm0  == Sub(s.p_surf, HydroMoist(f.dz, f.rho_surf, At(s.rho, 0), f.qvf1))
        rho0 == EOS(At(s.th, 0), f.qvf, pm0)
    IN  [self |-> [s EXCEPT !.pm = Put(s.pm, 0, pm0), !.rho = Put(s.rho, 0, rho0)],
         fr   |-> [f EXCEPT !.i = IF rho0 = At(s.rho, 0) THEN f.Niter ELSE f.i + 1]]

\* one pass of the level-0 loop: pm[0], then rho[0]; no test of pm[0]
Stage1RelaxOp(s, f) ==
    LET pm0 == Sub(s.p_surf, HydroMoist(f.dz, f.rho_surf, At(s.rho, 0), f.qvf1))
    IN  [self |-> [s EXCEPT !.pm = Put(s.pm, 0, pm0),
                            !.rho = Put(s.rho, 0, EOS(At(s.th, 0), f.qvf, pm0))],
         fr   |-> [f EXCEPT !.i = f.i + 1]]

\* Stage1EndOp with thm[0] taken from the surface potential temperature
Stage1EndOp_surface(s, f) ==
    [self |-> [s EXCEPT !.thm = Put(s.thm, 0, s.th_surf * f.qvf)],
     fr   |-> LET f1 == [f EXCEPT !.pc = "stage2_level", !.k = 1]
              IN  IF f.routine = "integrate_column" THEN Emit(f1) ELSE f1]

\* the end of stage 1: thm[0] from th[0] and the qvf of level 0;
\* integrate_column prints the level when verbose
Stage1EndOp(s, f) ==
    [self |-> [s EXCEPT !.thm = Put(s.thm, 0, At(s.th, 0) * f.qvf)],
     fr   |-> LET f1 == [f EXCEPT !.pc = "stage2_level", !.k = 1]
              IN  IF f.routine = "integrate_column" THEN Emit(f1) ELSE f1]

\* 2. Integrate up the column: the head of the loop over k and the
\*    assignments before the inner loop
Stage2LevelOp(s, f) ==
    IF f.k < f.N
    THEN [self |-> [s EXCEPT !.rho = Put(s.rho, f.k, At(s.rho, f.k - 1))],
          fr   |-> [f EXCEPT !.pc = "stage2_loop",
                             !.dz = At(s.z, f.k) - At(s.z, f.k - 1),
                             !.qvf1 = RDiv(2000 + (At(s.qv, f.k - 1) + At(s.qv, f.k)), 2),
                             !.qvf = Qvf(f.routine, At(s.qv, f.k)),
                             !.i = 0]]
    ELSE [self |-> s, fr |-> [f EXCEPT !.pc = "stage3_top"]]

\* the pressure a pass of the inner loop assigns to pm[k]
NewPm(s, f) ==
    Sub(At(s.pm, f.k - 1),
        HydroMoist(f.dz, At(s.rho, f.k), At(s.rho, f.k - 1), f.qvf1))

\* Stage2RelaxOp without the assertion: a non-positive pm[k] is replaced by
\* the pressure of the level below and the loop goes on
Stage2RelaxOp_clamp(s, f) ==
    LET pmk == IF Gt0(NewPm(s, f)) THEN NewPm(s, f) ELSE At(s.pm, f.k - 1)
    IN  [self |-> [s EXCEPT !.pm = Put(s.pm, f.k, pmk),
                            !.rho = Put(s.rho, f.k, EOS(At(s.th, f.k), f.qvf, pmk))],
         fr   |-> [f EXCEPT !.i = f.i + 1]]

\* one pass of the inner loop: pm[k] is assigned, then asserted positive,
\* then rho[k] is recomputed
Stage2RelaxOp(s, f) ==
    LET pmk == NewPm(s, f)
        s1  == [s EXCEPT !.pm = Put(s.pm, f.k, pmk)]
    IN  IF ~Gt0(pmk)
        THEN Raise(s1, f, AssertionError("too cold for chosen height"))
        ELSE [self |-> [s1 EXCEPT !.rho = Put(s.rho, f.k,
                                              EOS(At(s.th, f.k), f.qvf, pmk))],
              fr   |-> [f EXCEPT !.i = f.i + 1]]

\* Stage2LevelEndOp with the product taken in place: th[k] *= qvf
Stage2LevelEndOp_inplace(s, f) ==
    [self |-> [s EXCEPT !.thm = Put(s.thm, f.k, At(s.th, f.k) * f.qvf),
                        !.th = Put(s.th, f.k, RDiv(At(s.th, f.k) * f.qvf, 1000))],
     fr   |-> LET f1 == [f EXCEPT !.pc = "stage2_level", !.k = f.k + 1]
              IN  IF f.routine = "integrate_column" THEN Emit(f1) ELSE f1]

\* the end of level k: thm[k] from th[k] and the qvf of level k;
\* integrate_column prints the level when verbose
Stage2LevelEndOp(s, f) ==
    [self |-> [s EXCEPT !.thm = Put(s.thm, f.k, At(s.th, f.k) * f.qvf)],
     fr   |-> LET f1 == [f EXCEPT !.pc = "stage2_level", !.k = f.k + 1]
              IN  IF f.routine = "integrate_column" THEN Emit(f1) ELSE f1]

\* 3. Compute the dry sounding: p at the highest level
Stage3TopOp(s, f) ==
    [self |-> [s EXCEPT !.p = Put(s.p, f.N - 1, At(s.pm, f.N - 1))],
     fr   |-> [f EXCEPT !.pc = "stage3_loop", !.k = f.N - 2]]

\* Stage3StepOp with the rectangle rule: the layer weighs dz*rho[k]*g
Stage3StepOp_rectangle(s, f) ==
    LET dz == At(s.z, f.k + 1) - At(s.z, f.k)
    IN  [self |-> [s EXCEPT !.p = Put(s.p, f.k,
                       Add(At(s.p, f.k + 1),
                           HydroDry(dz, At(s.rho, f.k), At(s.rho, f.k))))],
         fr   |-> [f EXCEPT !.dz = dz, !.k = f.k - 1]]

\* Stage3StepOp that also rebalances the density of the level with the dry
\* pressure it has just computed
Stage3StepOp_rebalance(s, f) ==
    LET dz == At(s.z, f.k + 1) - At(s.z, f.k)
        pk == Add(At(s.p, f.k + 1), HydroDry(dz, At(s.rho, f.k), At(s.rho, f.k + 1)))
    IN  [self |-> [s EXCEPT !.p = Put(s.p, f.k, pk),
                            !.rho = Put(s.rho, f.k,
                                        EOS(At(s.th, f.k), Qvf(f.routine, At(s.qv, f.k)), pk))],
         fr   |-> [f EXCEPT !.dz = dz, !.k = f.k - 1]]

\* one pass of the downward loop
Stage3StepOp(s, f) ==
    LET dz == At(s.z, f.k + 1) - At(s.z, f.k)
    IN  [self |-> [s EXCEPT !.p = Put(s.p, f.k,
                       Add(At(s.p, f.k + 1),
                           HydroDry(dz, At(s.rho, f.k), At(s.rho, f.k + 1))))],
         fr   |-> [f EXCEPT !.dz = dz, !.k = f.k - 1]]

\* the end of the call: the residual is printed when verbose
ReturnOp(s, f) == [self |-> s, fr |-> Emit([f EXCEPT !.pc = "done"])]

\* where the running call stands
InLoop(f)  == f.i < f.Niter
Finished(f) == f.pc \in {"done", "failed"}
Callable(f) == f.pc = "idle" \/ Finished(f)

\* the next step of the running call
Step(s, f) ==
    CASE f.pc = "stage1_init"                -> Stage1InitOp(s, f)
      [] f.pc = "stage1_loop" /\ InLoop(f)   -> Stage1RelaxOp(s, f)
      [] f.pc = "stage1_loop" /\ ~InLoop(f)  -> Stage1EndOp(s, f)
      [] f.pc = "stage2_level"               -> Stage2LevelOp(s, f)
      [] f.pc = "stage2_loop" /\ InLoop(f)   -> Stage2RelaxOp(s, f)
      [] f.pc = "stage2_loop" /\ ~InLoop(f)  -> Stage2LevelEndOp(s, f)
      [] f.pc = "stage3_top"                 -> Stage3TopOp(s, f)
      [] f.pc = "stage3_loop" /\ f.k >= 0    -> Stage3StepOp(s, f)
      [] f.pc = "stage3_loop" /\ f.k < 0     -> ReturnOp(s, f)

\* a whole call, from its entry to its return or its exception
RECURSIVE Finish(_)
Finish(c) == IF Finished(c.fr) THEN c ELSE Finish(Step(c.self, c.fr))

Run(s, routine, verbose, Niter) == Finish(Enter(s, routine, verbose, Niter))

(* ------------------------------ inputs -------------------------------- *)
\* the surface lines of the file: <<p_surf (hPa), T_surf (K), qv_surf (g/kg)>>
SurfaceLines == {<<1000, 300, 0>>, <<1000, 300, 10>>, <<1000, 50, 0>>}
QvSurfSet == {line[3] : line \in SurfaceLines}
\* the level rows: heights z0, z0 + dz, ..., potential temperatures
\* th0, th0 + dth, ..., mixing ratios (g/kg) qa, qb, qa, ..., no wind
Z0Set  == {0, 5000}
DzSet  == {-1000, 100, 4000}
Th0Set == {50, 300}
DthSet == {0, 5}
QvSet  == {0, 10}
Table(n, z0, dz, th0, dth, qa, qb) ==
    [j \in 1..n |-> <<z0 + (j - 1) * dz, th0 + (j - 1) * dth,
                      IF j % 2 = 1 THEN qa ELSE qb, 0, 0>>]
Tables ==
    UNION { {Table(n, z0, dz, th0, dth, qa, qb) :
                z0 \in Z0Set, dz \in DzSet, th0 \in Th0Set, dth \in DthSet,
                qa \in QvSet, qb \in QvSet} : n \in 0..MaxN }
Routines == {"integrate_column_wrf", "integrate_column"}

(* --------------------------- the state machine ------------------------ *)
Init ==
    /\ \E line \in SurfaceLines, init \in Tables :
          self = InputSounding(line[1], line[2], line[3], init)
    /\ fr = NoFrame
    /\ nrelax = 0
    /\ nsteps = 0
    /\ recalled = FALSE

Apply(c) == self' = c.self /\ fr' = c.fr

\* a step of the running call, which completes passes relaxation passes
Count(passes) ==
    /\ nrelax' = nrelax + passes
    /\ nsteps' = nsteps + 1
    /\ UNCHANGED recalled

integrate_column_wrf ==
    /\ Callable(fr)
    /\ \E verbose \in BOOLEAN, Niter \in 1..MaxNiter :
          Apply(Enter(self, "integrate_column_wrf", verbose, Niter))
    /\ nrelax' = 0
    /\ nsteps' = 0
    /\ recalled' = (fr.pc # "idle")

integrate_column ==
    /\ Callable(fr)
    /\ \E verbose \in BOOLEAN, Niter \in 1..MaxNiter :
          Apply(Enter(self, "integrate_column", verbose, Niter))
    /\ nrelax' = 0
    /\ nsteps' = 0
    /\ recalled' = (fr.pc # "idle")

Stage1Init ==
    /\ fr.pc = "stage1_init"
    /\ Apply(Stage1InitOp(self, fr))
    /\ Count(0)

Stage1Relax ==
    /\ fr.pc = "stage1_loop" /\ InLoop(fr)
    /\ Apply(Stage1RelaxOp(self, fr))
    /\ Count(1)

Stage1End ==
    /\ fr.pc = "stage1_loop" /\ ~InLoop(fr)
    /\ Apply(Stage1EndOp(self, fr))
    /\ Count(0)

Stage2Level ==
    /\ fr.pc = "stage2_level"
    /\ Apply(Stage2LevelOp(self, fr))
    /\ Count(0)

Stage2Relax ==
    /\ fr.pc = "stage2_loop" /\ InLoop(fr)
    /\ Gt0(NewPm(self, fr))
    /\ Apply(Stage2RelaxOp(self, fr))
    /\ Count(1)

Stage2AssertFail ==
    /\ fr.pc = "stage2_loop" /\ InLoop(fr)
    /\ ~Gt0(NewPm(self, fr))
    /\ Apply(Stage2RelaxOp(self, fr))
    /\ Count(0)

Stage2LevelEnd ==
    /\ fr.pc = "stage2_loop" /\ ~InLoop(fr)
    /\ Apply(Stage2LevelEndOp(self, fr))
    /\ Count(0)

Stage3Top ==
    /\ fr.pc = "stage3_top"
    /\ Apply(Stage3TopOp(self, fr))
    /\ Count(0)

Stage3Step ==
    /\ fr.pc = "stage3_loop" /\ fr.k >= 0
    /\ Apply(Stage3StepOp(self, fr))
    /\ Count(0)

Return ==
    /\ fr.pc = "stage3_loop" /\ fr.k < 0
    /\ Apply(ReturnOp(self, fr))
    /\ Count(0)

Next ==
    \/ integrate_column_wrf
    \/ integrate_column
    \/ Stage1Init
    \/ Stage1Relax
    \/ Stage1End
    \/ Stage2Level
    \/ Stage2Relax
    \/ Stage2AssertFail
    \/ Stage2LevelEnd
    \/ Stage3Top
    \/ Stage3Step
    \/ Return

\* the steps of a running call, which the interpreter always goes on to take
RunStep ==
    \/ Stage1Init \/ Stage1Relax \/ Stage1End
    \/ Stage2Level \/ Stage2Relax \/ Stage2AssertFail \/ Stage2LevelEnd
    \/ Stage3Top \/ Stage3Step \/ Return

Spec == Init /\ [][Next]_vars

\* every pressure stays in the range PowRatio covers
TypeOK ==
    /\ fr.pc \in {"idle", "stage1_init", "stage1_loop", "stage2_level", "stage2_loop",
                  "stage3_top", "stage3_loop", "done", "failed"}
    /\ \A j \in DOMAIN self.pm : IsNaN(self.pm[j]) \/ self.pm[j] < 1700000

(* ------------------------------ claims -------------------------------- *)
Profile(s) == <<s.rho, s.thm, s.pm, s.p>>

\* the object as __init__ leaves it, with the inputs of s
Fresh(s) ==
    [s EXCEPT !.has_rho = FALSE, !.rho = << >>, !.thm = << >>,
              !.pm = << >>, !.p = << >>]

DomainFailure == fr.pc = "failed" /\ fr.exc.type = "AssertionError"

\* a pass of the stage-2 loop is about to compute a pressure that is not > 0
AboutToFail == fr.pc = "stage2_loop" /\ InLoop(fr) /\ ~Gt0(NewPm(self, fr))

(* C1: in stage 2, the pass that computes a pm[k] that is not positive ends *)
(* the call there: pm[k] keeps the computed value (not clamped, not a prior *)
(* value), rho[k] is not recomputed, thm[k], the levels above k and all of  *)
(* p stay as allocated, and the only step that follows is a new call.       *)
C1_DomainFailureStopsTheCall ==
    /\ [][AboutToFail =>
            /\ fr'.pc = "failed" /\ fr'.exc.type = "AssertionError"
            /\ fr'.k = fr.k /\ fr'.i = fr.i
            /\ self'.pm = Put(self.pm, fr.k, NewPm(self, fr))
            /\ self'.rho = self.rho /\ self'.thm = self.thm /\ self'.p = self.p
            /\ nrelax' = nrelax]_vars
    /\ [][fr.pc = "failed" => fr'.pc \in {"failed", "stage1_init"} /\ nrelax' = 0]_vars
    /\ [](DomainFailure =>
            /\ fr.k >= 1 /\ ~Gt0(At(self.pm, fr.k))
            /\ At(self.thm, fr.k) = 0
            /\ \A j \in (fr.k + 1)..(fr.N - 1) :
                  At(self.rho, j) = 0 /\ At(self.pm, j) = 0 /\ At(self.thm, j) = 0
            /\ \A j \in 0..(fr.N - 1) : At(self.p, j) = 0)

\* a failure at a level with a level above it and a pass of the loop to go
C1_Witness ==
    /\ DomainFailure
    /\ fr.k + 1 < fr.N /\ fr.i + 1 < fr.Niter
    /\ ~IsNaN(At(self.pm, fr.k)) /\ At(self.pm, fr.k) < 0

WithQvSurf(q) ==
    Run(Fresh([self EXCEPT !.qv_surf = q]), fr.routine, fr.verbose, fr.Niter)

Other(routine) ==
    IF routine = "integrate_column" THEN "integrate_column_wrf" ELSE "integrate_column"

AllDry == \A j \in 0..(fr.N - 1) : At(self.qv, j) = 0

\* the other routine, called with the Niter of the state on a fresh object
OtherRun == Run(Fresh(self), Other(fr.routine), fr.verbose, fr.Niter)

(* C4: on a table with qv[k] = 0 at every level and any surface state the  *)
(* two routines, run with the same Niter, end the same way with identical  *)
(* rho, thm, pm and p.                                                     *)
C4_DryTablesAgree ==
    Finished(fr) /\ fr.N >= 1 /\ AllDry =>
        LET c == OtherRun
        IN  c.fr.pc = fr.pc /\ Profile(c.self) = Profile(self)

(* C4 as amended: the same, for a surface state with qv_surf = 0 or a      *)
(* table with z[0] = 0.                                                    *)
C4_DryTablesDrySurfaceAgree ==
    Finished(fr) /\ fr.N >= 1 /\ AllDry /\ (self.qv_surf = 0 \/ At(self.z, 0) = 0) =>
        LET c == OtherRun
        IN  c.fr.pc = fr.pc /\ Profile(c.self) = Profile(self)

\* a returned profile of a dry table above a dry surface
C4_Witness ==
    /\ fr.pc = "done" /\ fr.N >= 2 /\ AllDry
    /\ self.qv_surf = 0 /\ At(self.z, 0) > 0
    /\ \A j \in 0..(fr.N - 1) : Gt0(At(self.pm, j))

\* a == b of two floats: false when either is NaN
FloatEq(a, b) == ~IsNaN(a) /\ ~IsNaN(b) /\ a = b

C6_NoHiddenState ==
    Finished(fr) =>
        LET c == Run(Fresh(self), fr.routine, fr.verbose, fr.Niter)
        IN  c.fr = fr /\ Profile(c.self) = Profile(self)

\* a call that returned on an object on which a call was made before
C6_Witness ==
    /\ fr.pc = "done" /\ recalled /\ fr.N >= 2
    /\ \A j \in 0..(fr.N - 1) : Gt0(At(self.pm, j))

InvalidTable ==
    \/ Len(self.z) = 0
    \/ \E j \in 1..(Len(self.z) - 1) : self.z[j + 1] <= self.z[j]

NothingComputed ==
    \A j \in DOMAIN self.rho :
        self.rho[j] = 0 /\ self.thm[j] = 0 /\ self.pm[j] = 0 /\ self.p[j] = 0

(* C7: on an empty table, or one whose heights are not strictly increasing, *)
(* a call fails before any element of rho, thm, pm or p is computed and     *)
(* never returns a profile.                                                 *)
C7_InvalidTableRejected ==
    InvalidTable => fr.pc # "done" /\ NothingComputed

(* C8: the domain failure at level k carries the level index k and the     *)
(* last valid pressure pm[k-1] to the caller.                              *)
C8_FailureNamesLevel ==
    DomainFailure =>
        /\ \E a \in DOMAIN fr.exc.args : fr.exc.args[a] = [t |-> "int", n |-> fr.k]
        /\ \E a \in DOMAIN fr.exc.args :
              fr.exc.args[a] = [t |-> "float", x |-> At(self.pm, fr.k - 1)]

(* C9: whenever no call is running, the rho, thm, pm and p the object has  *)
(* are the complete result of one call that returned.                      *)
C9_VisibleProfileComplete ==
    Callable(fr) /\ self.has_rho /\ Len(self.th) >= 1 =>
        \E routine \in Routines, Niter \in 1..MaxNiter :
            LET c == Run(Fresh(self), routine, fr.verbose, Niter)
            IN  c.fr.pc = "done" /\ Profile(c.self) = Profile(self)

\* the steps of a call on N levels that returns
StepBound(N, Niter) == N * (Niter + 3) + 2

(* C10: every call ends, within a number of steps fixed by N and Niter: a  *)
(* running call can always take its next step and takes at most            *)
(* StepBound(N, Niter) of them.  A call that returns has made exactly      *)
(* Niter relaxation passes at every level, N*Niter in all, whatever the    *)
(* values computed; a call on a non-empty table that does not return ended *)
(* in the domain failure.                                                  *)
C10_FixedIterationCount ==
    /\ ~Callable(fr) => Step(self, fr).fr # fr
    /\ nsteps <= StepBound(fr.N, fr.Niter)
    /\ fr.pc = "done" => nrelax = fr.N * fr.Niter /\ nsteps = StepBound(fr.N, fr.Niter)
    /\ fr.pc = "stage2_level" => nrelax = fr.k * fr.Niter
    /\ fr.pc = "failed" /\ fr.N >= 1 => DomainFailure

\* a returned call of two passes per level on a valid table, whose level 0
\* was at its fixed point after the first pass
C10_Witness ==
    /\ fr.pc = "done" /\ fr.N >= 2 /\ fr.Niter >= 2 /\ ~InvalidTable
    /\ nrelax = fr.N * fr.Niter
    /\ At(self.rho, 0) = fr.rho_surf
    /\ \A j \in 0..(fr.N - 1) : Gt0(At(self.pm, j))

\* a < b and a <= b of two floats: false when either is NaN
FloatLt(a, b) == ~IsNaN(a) /\ ~IsNaN(b) /\ a < b
FloatLe(a, b) == ~IsNaN(a) /\ ~IsNaN(b) /\ a <= b

\* th non-decreasing with height and qv >= 0 at every level
StablyStratified ==
    /\ \A j \in 1..(Len(self.th) - 1) : self.th[j + 1] >= self.th[j]
    /\ \A j \in DOMAIN self.qv : self.qv[j] >= 0

C12_MoistThetaFormula ==
    fr.pc = "done" =>
        /\ \A j \in 0..(fr.N - 1) :
              LET q == At(self.qv, j)
                  qvf_k == IF fr.routine = "integrate_column_wrf"
                           THEN 1000 + RDiv(rvovrd * q, 1000)
                           ELSE 1000 + RDiv((rvovrd - 1000) * q, 1000)
              IN  At(self.thm, j) = At(self.th, j) * qvf_k
        /\ LET c == OtherRun
           IN  c.fr.pc = "done" =>
                  \A j \in 0..(fr.N - 1) :
                      (At(c.self.thm, j) # At(self.thm, j)) <=> (At(self.qv, j) # 0)

\* a returned profile of a table with a moist and a dry level, whose th[0]
\* is not the surface potential temperature, and on which the other routine
\* returns too
C12_Witness ==
    /\ fr.pc = "done" /\ fr.N >= 2 /\ ~InvalidTable
    /\ \E j \in 0..(fr.N - 1) : At(self.qv, j) # 0
    /\ \E j \in 0..(fr.N - 1) : At(self.qv, j) = 0
    /\ At(self.th, 0) # self.th_surf
    /\ \A j \in 0..(fr.N - 1) : Gt0(At(self.pm, j))
    /\ OtherRun.fr.pc = "done"

\* the levels at which a step gives array a another value
Writes(a, b) == {j - 1 : j \in {i \in DOMAIN a : b[i] # a[i]}}

Stage12 == {"stage1_init", "stage1_loop", "stage2_level", "stage2_loop"}
Stage3  == {"stage3_top", "stage3_loop"}

\* the level the running call is working on in stages 1 and 2
Level(f) == IF f.pc \in {"stage1_init", "stage1_loop"} THEN 0 ELSE f.k

(* C13: the stages run in order on finalized values.  A step of a call     *)
(* gives rho or pm a value only in stages 1 and 2 and only at the level    *)
(* being worked on; the levels are worked on in increasing order; level    *)
(* k >= 1 is started with rho[k] and pm[k] untouched and all k*Niter       *)
(* passes of the levels below completed.  p is given a value only in       *)
(* stage 3, after all N*Niter passes, while rho, pm and thm no longer      *)
(* change: p[N-1] first, then p[k] for k = N-2 down to 0, each once, when  *)
(* p[k+1] has its value and p[k] is still untouched.                       *)
C13_StagesInOrder ==
    /\ [][~Callable(fr) =>
            LET wr == Writes(self.rho, self'.rho) \cup Writes(self.pm, self'.pm)
                wp == Writes(self.p, self'.p)
                kp == IF fr.pc = "stage3_top" THEN fr.N - 1 ELSE fr.k
            IN  /\ wr # {} =>
                      /\ fr.pc \in Stage12 /\ wr = {Level(fr)}
                      /\ fr.pc = "stage2_level" =>
                            /\ nrelax = fr.k * fr.Niter
                            /\ At(self.rho, fr.k) = 0 /\ At(self.pm, fr.k) = 0
                /\ fr.pc \in Stage12 /\ fr'.pc \in Stage12 => Level(fr') >= Level(fr)
                /\ wp # {} =>
                      /\ fr.pc \in Stage3 /\ wp = {kp}
                      /\ nrelax = fr.N * fr.Niter
                      /\ At(self.p, kp) = 0
                      /\ kp < fr.N - 1 => At(self.p, kp + 1) # 0
                /\ fr.pc \in Stage3 =>
                      /\ self'.rho = self.rho /\ self'.pm = self.pm
                      /\ self'.thm = self.thm
                      /\ fr'.pc = "done" \/ fr'.k = kp - 1]_vars
    /\ [](fr.pc \in Stage12 =>
            /\ \A j \in 0..(fr.N - 1) : At(self.p, j) = 0
            /\ \A j \in (Level(fr) + 1)..(fr.N - 1) :
                  At(self.rho, j) = 0 /\ At(self.pm, j) = 0)
    /\ [](fr.pc = "stage3_loop" =>
            \A j \in 0..(fr.N - 1) : (At(self.p, j) # 0) <=> (j > fr.k))
    /\ [](fr.pc = "done" => \A j \in 0..(fr.N - 1) : At(self.p, j) # 0)

\* a returned call of two passes per level on a valid table of three levels
C13_Witness ==
    /\ fr.pc = "done" /\ fr.N >= 3 /\ fr.Niter >= 2 /\ ~InvalidTable
    /\ \A j \in 0..(fr.N - 1) : Gt0(At(self.pm, j)) /\ Gt0(At(self.p, j))
    /\ \A j \in 1..(fr.N - 1) : At(self.p, j) < At(self.p, j - 1)

\* what __init__ read from the file
Inputs(s) == <<s.p_surf, s.th_surf, s.qv_surf, s.z, s.th, s.qv, s.u, s.v>>

\* the object of the state as it was constructed, with the wind w at every level
WithWind(w) ==
    Fresh([self EXCEPT !.u = [j \in DOMAIN self.u |-> w],
                       !.v = [j \in DOMAIN self.v |-> -w]])

WindSet == {0, 20}

(* C14: every step of a call, of either routine, verbose or not, up to its *)
(* return or its exception, leaves p_surf, th_surf, qv_surf, z, th, qv, u  *)
(* and v as they were and gives the object no other attribute than rho,    *)
(* thm, pm and p; u and v are not read: the same call on the same inputs   *)
(* with verbose the other way and the same or another wind ends the same   *)
(* way with the same rho, thm, pm and p and leaves that wind in place.     *)
C14_InputsUntouched ==
    /\ [][Inputs(self') = Inputs(self) /\ DOMAIN self' = DOMAIN self]_vars
    /\ [](Finished(fr) =>
            \A w \in WindSet :
                LET c == Run(WithWind(w), fr.routine, ~fr.verbose, fr.Niter)
                IN  /\ c.fr.pc = fr.pc /\ c.fr.exc = fr.exc
                    /\ Profile(c.self) = Profile(self)
                    /\ Inputs(c.self) = Inputs(WithWind(w)))

\* a verbose integrate_column call on a valid table with a moist lowest
\* level that printed the surface and level 0 and then ended in the domain
\* failure
C14_Witness ==
    /\ DomainFailure /\ fr.verbose /\ fr.routine = "integrate_column"
    /\ fr.printed >= 2 /\ ~InvalidTable
    /\ At(self.qv, 0) # 0 /\ At(self.thm, 0) # 1000 * At(self.th, 0)

\* every returned density is a positive number
RhoPositive == \A j \in 0..(fr.N - 1) : Gt0(At(self.rho, j))

\* the relaxation of level k >= 1 has converged: one more pass, made with
\* the returned rho[k], would assign the returned pm[k] again
Converged(k) ==
    LET dz   == At(self.z, k) - At(self.z, k - 1)
        qvf1 == RDiv(2000 + (At(self.qv, k - 1) + At(self.qv, k)), 2)
    IN  At(self.pm, k) =
            Sub(At(self.pm, k - 1),
                HydroMoist(dz, At(self.rho, k), At(self.rho, k - 1), qvf1))

(* C15: after a call that returns on a table with z strictly increasing    *)
(* and qv >= 0, with rho > 0 at every level, p[k] <= pm[k] at every level, *)
(* and p[k] = pm[k] at every level when qv[k] = 0 at every level.          *)
C15_DryBelowMoist ==
    fr.pc = "done" /\ ~InvalidTable /\ RhoPositive =>
        /\ \A j \in 0..(fr.N - 1) : At(self.p, j) <= At(self.pm, j)
        /\ AllDry => \A j \in 0..(fr.N - 1) : At(self.p, j) = At(self.pm, j)

(* C15 as amended: the same, when the relaxation has converged at every    *)
(* level k >= 1.                                                           *)
C15_DryBelowMoistConverged ==
    fr.pc = "done" /\ ~InvalidTable /\ RhoPositive
                   /\ (\A j \in 1..(fr.N - 1) : Converged(j)) =>
        /\ \A j \in 0..(fr.N - 1) : At(self.p, j) <= At(self.pm, j)
        /\ AllDry => \A j \in 0..(fr.N - 1) : At(self.p, j) = At(self.pm, j)

\* a returned profile of a valid table with a moist level, converged at
\* every level
C15_Witness ==
    /\ fr.pc = "done" /\ fr.N >= 2 /\ ~InvalidTable /\ RhoPositive
    /\ \A j \in 1..(fr.N - 1) : Converged(j)
    /\ \E j \in 0..(fr.N - 1) : At(self.qv, j) # 0
    /\ At(self.p, 0) < At(self.pm, 0)

====
